---------------------------- MODULE Spec2Model ----------------------------
(***************************************************************************)
(* Functional regularisation of memorable past (src/asdfghjkl/fr.py).      *)
(*                                                                         *)
(* Five specifications share the variables of this module:                 *)
(*   Spec        the FROMP engine: construction, update_regularization_info *)
(*               and get_penalty, with the hooks, flags and task list;     *)
(*   SpecSelect  collect_memorable_points as a function of its inputs;     *)
(*   SpecTask    one PastTask: construction, update_mean and the rows      *)
(*               get_penalty compares;                                     *)
(*   SpecPenalty the value FROMP.get_penalty returns (fixed-point numbers); *)
(*   SpecKernel  the reshape of update_kernel and the quadratic form of    *)
(*               PastTask.get_penalty on small integer kernels.            *)
(* Tensors are sequences; index lists hold 0-based integers as in Python.  *)
(***************************************************************************)
EXTENDS Integers, Sequences, FiniteSets, TLC

(***************************************************************************)
(* Bounds of the model                                                     *)
(***************************************************************************)
\* largest dataset handed to collect_memorable_points in SpecSelect
MaxData == 5
\* largest n_memorable_points requested in SpecSelect
MaxRequest == 5
\* largest dataset a PastTask of SpecTask is selected from
MaxPoints == 3
\* largest max_mem_per_batch below the default tried in SpecTask
MaxChunk == 2
\* calls made on the PastTask of SpecTask
MaxUpdates == 2
\* tasks registered with the engine of SpecPenalty
MaxPenTasks == 1
\* largest number of points and of classes of a kernel in SpecKernel
MaxKernelPoints == 2
MaxKernelClasses == 2

(***************************************************************************)
(* Python / torch helpers                                                  *)
(***************************************************************************)
Min(a, b) == IF a <= b THEN a ELSE b

Max(a, b) == IF a >= b THEN a ELSE b

\* list(range(n)): the 0-based indices 0..n-1 in ascending order
Range0(n) == [i \in 1..n |-> i - 1]

\* Python slice s[:k]: the first k elements, all but the last -k when k < 0
SliceTo(s, k) == IF k >= 0 THEN SubSeq(s, 1, Min(k, Len(s)))
                 ELSE SubSeq(s, 1, Len(s) + k)

\* int(a / b) for b > 0: true division followed by truncation towards zero
IntDiv(a, b) == IF a >= 0 THEN a \div b ELSE -((-a) \div b)

\* round(n * frac) for n >= 0: to the nearest integer, a tie to the even one
RoundMulFrac(n, frac) ==
    LET q == (n * frac.num) \div frac.den
        r == (n * frac.num) % frac.den
    IN IF 2 * r < frac.den THEN q
       ELSE IF 2 * r > frac.den THEN q + 1
       ELSE IF q % 2 = 0 THEN q ELSE q + 1

\* int(n * frac) with the fraction frac = num/den, den > 0
IntMulFrac(n, frac) == IntDiv(n * frac.num, frac.den)

\* int(np.ceil(a / b)) for a >= 0, b > 0
CeilDiv(a, b) == (a + b - 1) \div b

\* [v] * k: Python list repetition, empty when k <= 0
Repeat(v, k) == [i \in 1..Max(k, 0) |-> v]

SeqToSet(s) == {s[i] : i \in 1..Len(s)}

\* the elements of s that satisfy Keep, in their order in s
RECURSIVE SelectSeqBy(_, _)
SelectSeqBy(s, keep) ==
    IF s = << >> THEN << >>
    ELSE IF Head(s) \in keep THEN <<Head(s)>> \o SelectSeqBy(Tail(s), keep)
         ELSE SelectSeqBy(Tail(s), keep)

\* the ascending sequence of a finite set of integers (torch.unique sorts)
RECURSIVE SortedSeq(_)
SortedSeq(S) ==
    IF S = {} THEN << >>
    ELSE LET m == CHOOSE x \in S : \A y \in S : x <= y
         IN <<m>> \o SortedSeq(S \ {m})

\* number of positions of s holding v
Count(s, v) == Cardinality({i \in 1..Len(s) : s[i] = v})

(***************************************************************************)
(* Constants of fr.py                                                      *)
(***************************************************************************)
TYPE_MEMORABLE_PAST == 1

TYPE_ERROR_CORRETION == 2

SelectMethods == {"lambda_descend", "random", "lambda_descend_global", "random_global"}

\* 'global' in select_method
IsGlobalMethod(select_method) ==
    select_method \in {"lambda_descend_global", "random_global"}

(***************************************************************************)
(* Point selection                                                         *)
(* A dataset is [targets, offset]: targets[i+1] is the label of local      *)
(* index i, offset the shift of its local-to-global index translation.     *)
(* order and ec_order are rankings of the local indices: the descending    *)
(* argsort of the scores the model gives, or the permutation numpy draws.  *)
(***************************************************************************)
\* dataset.globalize_memory_index(idx)
globalize_memory_index(dataset, idx) == idx + dataset.offset

\* dataset[idx][1]: random access by global index, the target of the example
DatasetTarget(dataset, idx) == dataset.targets[idx - dataset.offset + 1]

\* (targets == cls).nonzero().flatten(): local indices of the class, ascending
class_indices(targets, cls) ==
    SelectSeqBy(Range0(Len(targets)), {i \in 0..(Len(targets) - 1) : targets[i + 1] = cls})

\* class_indices[select_indices[:k]]: the members of the class in ranking
\* order (argsort of the class's scores, or a permutation of the class)
ClassRanked(targets, cls, order) ==
    SelectSeqBy(order, SeqToSet(class_indices(targets, cls)))

\* a per-class share that takes one point more than the even split
PerClassSharePlusOne(n_memorable_points, n_classes) == IntDiv(n_memorable_points, n_classes) + 1

\* _collect_memorable_points_class_balanced, line 492
PerClassShare(n_memorable_points, n_classes) == IntDiv(n_memorable_points, n_classes)

RECURSIVE CatClasses(_, _, _, _)
CatClasses(classes, targets, order, per_class) ==
    IF classes = << >> THEN << >>
    ELSE SliceTo(ClassRanked(targets, Head(classes), order), per_class)
         \o CatClasses(Tail(classes), targets, order, per_class)

_collect_memorable_points_class_balanced(dataset, n_memorable_points, order) ==
    LET targets == dataset.targets
        classes == SortedSeq(SeqToSet(targets))
        n_classes == Len(classes)
        n_memorable_points_per_class == PerClassShare(n_memorable_points, n_classes)
    IN CatClasses(classes, targets, order, n_memorable_points_per_class)

_collect_memorable_points(dataset, n_memorable_points, order) ==
    SliceTo(order, n_memorable_points)

_collect_error_correction_points(dataset, n_error_correction_points, ec_order) ==
    SliceTo(ec_order, n_error_correction_points)


\* Subset(dataset, range(rank, len(dataset), world_size)): the shard of one
\* process; a Subset has no globalize_memory_index of its own
Shard(dataset, dist) ==
    LET d == Len(dataset.targets)
        picked == {i \in 0..(d - 1) : i >= dist.rank /\ (i - dist.rank) % dist.world_size = 0}
        idx == SortedSeq(picked)
    IN [targets |-> [j \in 1..Len(idx) |-> dataset.targets[idx[j] + 1]],
        offset |-> dataset.offset]

\* the dataset the selection works on
SelectionDataset(data_loader, is_distributed, dist) ==
    IF is_distributed THEN Shard(data_loader.dataset, dist) ELSE data_loader.dataset

\* batch_size None and n_memorable_points_sub None are written 0: neither a
\* DataLoader batch size nor a sub-sample cap of the engine can be 0
NoneInt == 0

\* a test that sends a request for exactly the whole dataset to the selection
UseAllPointsStrict(n_memorable_points, n_task_data) == n_memorable_points > n_task_data

\* collect_memorable_points, line 443: use ALL data points as memorable points
UseAllPoints(n_memorable_points, n_task_data) == n_memorable_points >= n_task_data

\* what collect_memorable_points returns, or the error it raises
Raised(err) ==
    [raised |-> err, as_tensor |-> TRUE, memorable_points |-> << >>, batch_size |-> 1,
     memorable_points_indices |-> << >>, memorable_points_indices_global |-> << >>,
     memorable_points_true_targets |-> << >>, memorable_points_types |-> << >>]

collect_memorable_points(data_loader, n_memorable_points_arg, select_method, memory_residual_frac, use_nn_error_correction, as_tensor, is_distributed, n_memorable_points_sub, dist, order, ec_order) ==
    LET dataset == SelectionDataset(data_loader, is_distributed, dist)
        n_task_data == Len(dataset.targets)
        with_ec == use_nn_error_correction /\ memory_residual_frac.num > 0
        n_error_correction_points ==
            IF with_ec THEN IntMulFrac(n_memorable_points_arg, memory_residual_frac) ELSE 0
        n_memorable_points == n_memorable_points_arg - n_error_correction_points
        primary ==
            IF UseAllPoints(n_memorable_points, n_task_data) THEN Range0(n_task_data)
            ELSE IF IsGlobalMethod(select_method)
                 THEN _collect_memorable_points(dataset, n_memorable_points, order)
                 ELSE _collect_memorable_points_class_balanced(dataset, n_memorable_points, order)
        memorable_points_indices ==
            IF with_ec
            THEN primary \o _collect_error_correction_points(dataset, n_error_correction_points, ec_order)
            ELSE primary
        memorable_points_types ==
            Repeat(TYPE_MEMORABLE_PAST, n_memorable_points)
            \o (IF with_ec THEN Repeat(TYPE_ERROR_CORRETION, n_error_correction_points) ELSE << >>)
        memorable_points_indices_global ==
            [i \in 1..Len(memorable_points_indices) |->
                globalize_memory_index(dataset, memorable_points_indices[i])]
        batch_size ==
            IF n_memorable_points_sub # NoneInt THEN n_memorable_points_sub
            ELSE Min(n_memorable_points, data_loader.batch_size)
    IN  IF data_loader.batch_size = NoneInt THEN Raised("AssertionError")
        ELSE IF select_method \notin SelectMethods THEN Raised("AssertionError")
        ELSE IF is_distributed /\ memorable_points_indices # << >> THEN Raised("AttributeError")
        ELSE IF as_tensor /\ memorable_points_indices = << >> THEN Raised("RuntimeError")
        ELSE IF ~as_tensor /\ batch_size <= 0 THEN Raised("ValueError")
        ELSE [raised |-> "",
              as_tensor |-> as_tensor,
              memorable_points |-> memorable_points_indices_global,
              batch_size |-> IF as_tensor THEN 1 ELSE batch_size,
              memorable_points_indices |-> memorable_points_indices,
              memorable_points_indices_global |-> memorable_points_indices_global,
              memorable_points_true_targets |->
                  [i \in 1..Len(memorable_points_indices_global) |->
                      DatasetTarget(dataset, memorable_points_indices_global[i])],
              memorable_points_types |-> memorable_points_types]


(***************************************************************************)
(* PastTask                                                                *)
(* Model outputs are rows of fixed-point numbers, One standing for 1.0.    *)
(* memorable_points holds the ids of the points; as_tensor tells whether   *)
(* they are a tensor (one row per point) or a DataLoader over them with    *)
(* batch_size points per batch.  An optional value is None or Some(v).     *)
(***************************************************************************)
One == 100

None == [some |-> FALSE]

Some(v) == [some |-> TRUE, val |-> v]

\* len(self.memorable_points): rows of a tensor, batches of a DataLoader
LenMemorablePoints(as_tensor, points, batch_size) ==
    IF as_tensor THEN Len(points) ELSE CeilDiv(Len(points), batch_size)

\* PastTask.__init__ on what collect_memorable_points returned
PastTask(r, class_ids) ==
    [memorable_points |-> r.memorable_points,
     as_tensor |-> r.as_tensor,
     batch_size |-> r.batch_size,
     kernel_inv |-> None,
     mean |-> None,
     class_ids |-> class_ids,
     memorable_points_indices |-> r.memorable_points_indices,
     memorable_points_indices_global |-> r.memorable_points_indices_global,
     memorable_points_true_targets |-> r.memorable_points_true_targets,
     memorable_points_types |-> r.memorable_points_types,
     n_memorable_points |-> LenMemorablePoints(r.as_tensor, r.memorable_points, r.batch_size),
     \* history: the update_regularization_info call that created the task,
     \* and the calls that last assigned its mean and its kernel_inv
     registered_by |-> 0, mean_call |-> 0, kernel_call |-> 0]

\* tensor.argmax(): 0-based position of the first largest entry
Argmax(row) ==
    (CHOOSE i \in 1..Len(row) :
        /\ \A j \in 1..Len(row) : row[j] <= row[i]
        /\ \A j \in 1..(i - 1) : row[j] < row[i]) - 1

\* one row of _convert_targets_to_one_hot
OneHotRow(target, one_hot_len) == [j \in 1..one_hot_len |-> IF j = target + 1 THEN One ELSE 0]

\* _convert_targets_to_one_hot: target_one_hot[target] = 1. needs the target
\* inside the row (negative targets count from the end), torch.stack a row
_convert_targets_to_one_hot(targets, one_hot_len) ==
    IF \E i \in 1..Len(targets) : targets[i] \notin (-one_hot_len)..(one_hot_len - 1)
    THEN [raised |-> "IndexError", rows |-> << >>]
    ELSE IF targets = << >> THEN [raised |-> "RuntimeError", rows |-> << >>]
    ELSE [raised |-> "",
          rows |-> [i \in 1..Len(targets) |->
                      OneHotRow(IF targets[i] < 0 THEN targets[i] + one_hot_len ELSE targets[i],
                                one_hot_len)]]

\* PastTask._compute_memory_true_targets_one_hot (integer targets)
_compute_memory_true_targets_one_hot(task) ==
    IF ~task.class_ids.some THEN [raised |-> "TypeError", rows |-> << >>]
    ELSE _convert_targets_to_one_hot(task.memorable_points_true_targets, Len(task.class_ids.val))

\* sizes of the batches the DataLoader yields (drop_last=False)
BatchSizes(task) ==
    [i \in 1..CeilDiv(Len(task.memorable_points), task.batch_size) |->
        Min(task.batch_size, Len(task.memorable_points) - (i - 1) * task.batch_size)]

\* number of leading batches _evaluate_mean reads before its break
RECURSIVE BatchesRead(_, _, _)
BatchesRead(sizes, i, n_memorable_points_sub) ==
    IF i > Len(sizes) THEN Len(sizes)
    ELSE IF n_memorable_points_sub # NoneInt /\ n_memorable_points_sub < i * sizes[i]
         THEN i - 1
         ELSE BatchesRead(sizes, i + 1, n_memorable_points_sub)

\* PastTask._evaluate_mean: out[p] is the row the model, with its hooks,
\* gives for point p; idx is None or Some(list of row positions)
_evaluate_mean(task, out, n_memorable_points_sub, idx) ==
    IF ~task.as_tensor
    THEN LET sizes == BatchSizes(task)
             nb == BatchesRead(sizes, 1, n_memorable_points_sub)
             n_rows == Min((nb * task.batch_size), Len(task.memorable_points))
         IN IF nb = 0 THEN [raised |-> "RuntimeError", rows |-> << >>]
            ELSE [raised |-> "",
                  rows |-> [i \in 1..n_rows |-> out[task.memorable_points[i]]]]
    ELSE IF idx.some
         THEN IF \E k \in 1..Len(idx.val) : idx.val[k] \notin 0..(Len(task.memorable_points) - 1)
              THEN [raised |-> "IndexError", rows |-> << >>]
              ELSE [raised |-> "",
                    rows |-> [k \in 1..Len(idx.val) |-> out[task.memorable_points[idx.val[k] + 1]]]]
         ELSE [raised |-> "",
               rows |-> [i \in 1..Len(task.memorable_points) |-> out[task.memorable_points[i]]]]


\* np.array_split(range(total), sections): the k-th index chunk, k in 1..sections
ArraySplitChunk(total, sections, k) ==
    LET each == total \div sections
        extras == total % sections
        start == (k - 1) * each + Min(k - 1, extras)
        size == each + (IF k <= extras THEN 1 ELSE 0)
    IN [i \in 1..size |-> start + i - 1]

\* torch.cat([self._evaluate_mean(model, idx=idx) for idx in mem_batch_indices])
RECURSIVE CatChunks(_, _, _, _, _)
CatChunks(task, out, total, sections, k) ==
    IF k > sections THEN [raised |-> "", rows |-> << >>]
    ELSE LET head == _evaluate_mean(task, out, NoneInt, Some(ArraySplitChunk(total, sections, k)))
             rest == CatChunks(task, out, total, sections, k + 1)
         IN IF head.raised # "" THEN head
            ELSE IF rest.raised # "" THEN rest
            ELSE [raised |-> "", rows |-> head.rows \o rest.rows]

\* update_mean, lines 66-74: the soft mean of all memorable points
EvaluateMeanInBatches(task, out, max_mem_per_batch) ==
    LET total == LenMemorablePoints(task.as_tensor, task.memorable_points, task.batch_size)
        n_batches == CeilDiv(total, max_mem_per_batch)
    IN IF n_batches = 1 THEN _evaluate_mean(task, out, NoneInt, None)
       ELSE IF n_batches = 0 THEN [raised |-> "ValueError", rows |-> << >>]
       ELSE CatChunks(task, out, total, n_batches, 1)

\* update_mean, lines 77-79: memorable_points_true_targets is a Python list,
\* so (list == class_id) is False and list[False] = i assigns element 0
RemapTrueTargets(task) ==
    LET class_ids == task.class_ids.val
        targets == task.memorable_points_true_targets
    IN IF class_ids = Range0(Len(class_ids)) THEN [raised |-> "", targets |-> targets]
       ELSE IF targets = << >> THEN [raised |-> "IndexError", targets |-> targets]
       ELSE [raised |-> "", targets |-> [targets EXCEPT ![1] = Len(class_ids) - 1]]

\* del lst[idx]
DelAt(lst, idx) == SubSeq(lst, 1, idx) \o SubSeq(lst, idx + 2, Len(lst))

\* update_mean, lines 94-108: the loop over idx = n-1 .. 0.  st holds the
\* task and the two local lists; a raise leaves what was mutated so far
RECURSIVE CorrectLoop(_, _, _)
CorrectLoop(idx, st, memory_loss_mode) ==
    IF idx < 0 \/ st.raised # "" THEN st
    ELSE LET mean == st.task.mean.val
             targets == st.task.memorable_points_true_targets
         IN IF idx >= Len(mean) \/ idx >= Len(targets)
            THEN [st EXCEPT !.raised = "IndexError"]
            ELSE LET model_prediction == Argmax(mean[idx + 1])
                     true_target == targets[idx + 1]
                 IN IF model_prediction = true_target
                    THEN CorrectLoop(idx - 1, st, memory_loss_mode)
                    ELSE IF memory_loss_mode = "soft_correct"
                    THEN CorrectLoop(idx - 1,
                            [st EXCEPT !.task.memorable_points_indices = DelAt(@, idx),
                                       !.task.memorable_points_true_targets = DelAt(@, idx),
                                       !.mean_list = DelAt(@, idx),
                                       !.memorable_points_list = DelAt(@, idx)],
                            memory_loss_mode)
                    ELSE LET oh == _convert_targets_to_one_hot(<<true_target>>,
                                                               Len(st.task.class_ids.val))
                         IN IF oh.raised # "" THEN [st EXCEPT !.raised = oh.raised]
                            ELSE CorrectLoop(idx - 1,
                                    [st EXCEPT !.task.mean = Some([mean EXCEPT ![idx + 1] = oh.rows[1]])],
                                    memory_loss_mode)

\* torch.argsort(residuals, descending=True): positions (0-based) by falling
\* residual; equal residuals come in the order the ranking tie gives them
\* place of position i among equal residuals
TieRank(tie, i) == IF (i + 1) \in DOMAIN tie THEN tie[i + 1] ELSE i

RECURSIVE ArgsortDescending(_, _, _)
ArgsortDescending(residuals, left, tie) ==
    IF left = {} THEN << >>
    ELSE LET best == CHOOSE i \in left :
                        \A j \in left : \/ residuals[j + 1] < residuals[i + 1]
                                        \/ /\ residuals[j + 1] = residuals[i + 1]
                                           /\ TieRank(tie, i) <= TieRank(tie, j)
         IN <<best>> \o ArgsortDescending(residuals, left \ {best}, tie)

Abs(x) == IF x < 0 THEN -x ELSE x

RECURSIVE SumSeq(_)
SumSeq(s) == IF s = << >> THEN 0 ELSE Head(s) + SumSeq(Tail(s))

\* (a - b).abs().sum() of two rows
L1Distance(a, b) == SumSeq([j \in 1..Len(a) |-> Abs(a[j] - b[j])])

\* update_mean, lines 81-88
LowResidualHardRest(task, memory_residual_frac, tie) ==
    LET oh == _compute_memory_true_targets_one_hot(task)
        mean == task.mean.val
    IN IF oh.raised # "" THEN [raised |-> oh.raised, task |-> task]
       ELSE IF Len(oh.rows) # Len(mean) /\ Len(oh.rows) # 1 /\ Len(mean) # 1
       THEN [raised |-> "RuntimeError", task |-> task]
       ELSE LET n == Max(Len(oh.rows), Len(mean))
                row_of(m, i) == IF Len(m) = 1 THEN m[1] ELSE m[i]
                residuals == [i \in 1..n |-> L1Distance(row_of(mean, i), row_of(oh.rows, i))]
                n_memory_residual == IntMulFrac(task.n_memorable_points, memory_residual_frac)
                large_residual_indices ==
                    SliceTo(ArgsortDescending(residuals, 0..(n - 1), tie), n_memory_residual)
                large == SeqToSet(large_residual_indices)
            IN IF \E i \in large : i >= Len(mean) \/ i >= Len(oh.rows)
               THEN [raised |-> "IndexError", task |-> task]
               ELSE [raised |-> "",
                     task |-> [task EXCEPT !.mean =
                                 Some([i \in 1..Len(mean) |->
                                         IF (i - 1) \in large THEN oh.rows[i] ELSE mean[i]])]]


MemoryLossModes ==
    {"soft_all", "hard_all", "soft_correct", "soft_correct_hard_rest", "soft_low_residual_hard_rest"}

\* update_mean, lines 110-113: the lists st holds after the loop, stacked
StackLists(st, memory_loss_mode) ==
    IF st.raised # "" THEN [raised |-> st.raised, task |-> st.task]
    ELSE IF memory_loss_mode # "soft_correct" THEN [raised |-> "", task |-> st.task]
    \* torch.stack(mean_list)
    ELSE IF st.mean_list = << >> THEN [raised |-> "RuntimeError", task |-> st.task]
    \* torch.stack(memorable_points_list): the batches of a DataLoader are
    \* [inputs, targets] lists, which torch.stack rejects
    ELSE IF st.memorable_points_list = << >>
    THEN [raised |-> "RuntimeError", task |-> [st.task EXCEPT !.mean = Some(st.mean_list)]]
    ELSE IF ~st.task.as_tensor
    THEN [raised |-> "TypeError", task |-> [st.task EXCEPT !.mean = Some(st.mean_list)]]
    ELSE [raised |-> "",
          task |-> [st.task EXCEPT !.mean = Some(st.mean_list),
                                   !.memorable_points = st.memorable_points_list,
                                   !.n_memorable_points = Len(st.memorable_points_list)]]

\* update_mean, lines 90-113: prune or overwrite the mispredicted points
CorrectMispredicted(task, memory_loss_mode) ==
    StackLists(
        CorrectLoop(task.n_memorable_points - 1,
                    [raised |-> "", task |-> task,
                     mean_list |-> task.mean.val,
                     \* [m for m in self.memorable_points]: rows of the tensor, or
                     \* the batches the DataLoader yields
                     memorable_points_list |->
                         IF task.as_tensor THEN task.memorable_points
                         ELSE Range0(LenMemorablePoints(task.as_tensor, task.memorable_points,
                                                        task.batch_size))],
                    memory_loss_mode),
        memory_loss_mode)

\* update_mean, lines 76-113: t1 carries the soft mean, rm is the remap of
\* its true targets
CorrectRemapped(t1, rm, memory_loss_mode, memory_residual_frac, tie) ==
    IF rm.raised # "" THEN [raised |-> rm.raised, task |-> t1]
    ELSE IF memory_loss_mode = "soft_low_residual_hard_rest"
    THEN LowResidualHardRest([t1 EXCEPT !.memorable_points_true_targets = rm.targets],
                             memory_residual_frac, tie)
    ELSE CorrectMispredicted([t1 EXCEPT !.memorable_points_true_targets = rm.targets],
                             memory_loss_mode)

\* update_mean, lines 75-113: what follows the evaluation ev of the mean
CorrectMean(task, ev, memory_loss_mode, memory_residual_frac, tie) ==
    IF ev.raised # "" THEN [raised |-> ev.raised, task |-> task]
    ELSE IF memory_loss_mode \notin
            {"soft_correct", "soft_correct_hard_rest", "soft_low_residual_hard_rest"}
    THEN [raised |-> "", task |-> [task EXCEPT !.mean = Some(ev.rows)]]
    ELSE IF ~task.class_ids.some
    THEN [raised |-> "TypeError", task |-> [task EXCEPT !.mean = Some(ev.rows)]]
    ELSE CorrectRemapped([task EXCEPT !.mean = Some(ev.rows)],
                         RemapTrueTargets(task),
                         memory_loss_mode, memory_residual_frac, tie)

\* update_mean, lines 63-65: the one-hot true targets oh as the mean
HardAll(task, oh) ==
    IF oh.raised # "" THEN [raised |-> oh.raised, task |-> task]
    ELSE [raised |-> "", task |-> [task EXCEPT !.mean = Some(oh.rows)]]

\* PastTask.update_mean: the task afterwards, and the error raised if any
update_mean(task, out, max_mem_per_batch, memory_loss_mode, memory_residual_frac, tie) ==
    IF memory_loss_mode = "hard_all"
    THEN HardAll(task, _compute_memory_true_targets_one_hot(task))
    ELSE CorrectMean(task, EvaluateMeanInBatches(task, out, max_mem_per_batch),
                     memory_loss_mode, memory_residual_frac, tie)


\* number of points a PastTask holds, whichever way it stores them
NumPoints(task) == Len(task.memorable_points)

\* PastTask.update_kernel: kernel is what kernel_fn returned, [ndim, n, c,
\* singular]; kernel_inv keeps the shape (nc, nc) or (c, n, n)
update_kernel(task, kernel) ==
    IF kernel.ndim \notin {3, 4} THEN [raised |-> "ValueError", task |-> task]
    ELSE IF kernel.singular THEN [raised |-> "LinAlgError", task |-> task]
    ELSE [raised |-> "",
          task |-> [task EXCEPT !.kernel_inv =
                      Some(IF kernel.ndim = 4
                           THEN [ndim |-> 2, n |-> kernel.n, c |-> kernel.c]
                           ELSE [ndim |-> 3, n |-> kernel.n, c |-> kernel.c])]]

\* PastTask.get_penalty down to the shapes: which error it raises, if any.
\* current is the (n, c) output of _evaluate_mean
PenaltyShapes(task, current, idx, use_kprior_penalty) ==
    LET stored == task.mean.val
        bad_idx == idx.some /\ \E k \in 1..Len(idx.val) : idx.val[k] \notin 0..(Len(stored) - 1)
        rows == IF idx.some THEN Len(idx.val) ELSE Len(stored)
        n_cur == Len(current)
        \* current_mean - mean broadcasts when the row counts agree or one is 1
        n_b == IF n_cur = rows \/ rows = 1 THEN n_cur ELSE IF n_cur = 1 THEN rows ELSE -1
        c == IF current = << >> THEN 0 ELSE Len(current[1])
        kernel_inv == task.kernel_inv
    IN IF bad_idx THEN "IndexError"
       ELSE IF use_kprior_penalty
            THEN (IF n_cur # rows THEN "AssertionError" ELSE "")
       ELSE IF n_b = -1 THEN "RuntimeError"
       ELSE IF ~kernel_inv.some THEN ""
       ELSE IF kernel_inv.val.ndim = 2
            THEN (IF kernel_inv.val.n * kernel_inv.val.c # n_b * c THEN "RuntimeError" ELSE "")
       ELSE IF kernel_inv.val.c # c \/ kernel_inv.val.n # n_b THEN "RuntimeError" ELSE ""


(***************************************************************************)
(* The FROMP engine                                                        *)
(***************************************************************************)
VARIABLES
    fromp,            \* None before construction, Some(settings) afterwards
    model,            \* the network: DDP wrapping, flags, modes, forward hooks
    observed_tasks,   \* FROMP.observed_tasks
    precond,          \* the curvature estimator: tasks accumulated / inverted
    calls,            \* history: update_regularization_info calls so far
    last,             \* history: what the last operation did
    sel_in, sel_out,  \* SpecSelect: inputs and result of collect_memorable_points
    task, task_log,   \* SpecTask: one PastTask and its last update_mean
    pen               \* SpecPenalty: engine, outputs and penalties returned

vars == <<fromp, model, observed_tasks, precond, calls, last,
          sel_in, sel_out, task, task_log, pen>>

engine_vars == <<fromp, model, observed_tasks, precond, calls, last>>

select_vars == <<sel_in, sel_out>>

task_vars == <<task, task_log>>

\* update_regularization_info calls explored
MaxCalls == 2
\* forward hooks a model may carry before the exploration stops
MaxHooks == 2
\* width of the network's output
NumClasses == 2

_precond_classes == {"kron", "diag"}

_fisher_types == {"exact", "mc"}

_kernel_fns == {"implicit", "class_wise"}

\* default of update_mean's max_mem_per_batch
DefaultMaxMemPerBatch == 50

\* self.model and the module the hooks of update_regularization_info go to
SelfModel(m) == IF m.is_ddp THEN "wrapper" ELSE "module"

\* module.eval(): a wrapper puts its module in evaluation mode as well
Eval(m, target) ==
    [m EXCEPT !.training =
        IF target = "wrapper" THEN [wrapper |-> FALSE, module |-> FALSE]
        ELSE [@ EXCEPT !.module = FALSE]]

\* customize_head up to its yield: register_forward_hook
RegisterHook(m, target, hook) ==
    [m EXCEPT !.hooks[target] = Append(@, hook)]

\* customize_head after its yield: handle.remove() of the hook it registered
RemoveHook(m, target) ==
    [m EXCEPT !.hooks[target] = SubSeq(@, 1, Len(@) - 1)]

\* disable_broadcast_buffers up to its yield
DisableBroadcast(m) ==
    IF m.is_ddp THEN [m EXCEPT !.broadcast_buffers = FALSE] ELSE m

\* disable_broadcast_buffers after its yield
RestoreBroadcast(m, tmp) ==
    IF m.is_ddp THEN [m EXCEPT !.broadcast_buffers = tmp] ELSE m

\* a readiness test that lets an engine without tasks through
AlwaysReady(tasks) == TRUE

\* FROMP.is_ready
is_ready(tasks) == Len(tasks) > 0

\* a list insertion at the front instead of the end
PrependTask(tasks, t) == <<t>> \o tasks

\* self.observed_tasks.append(...)
AppendTask(tasks, t) == Append(tasks, t)

\* a refresh of the newly registered task alone
NewestTaskOnly(tasks) == Len(tasks)

\* for i, task in enumerate(self.observed_tasks): where the refresh starts
FirstRefreshed(tasks) == 1

\* the condition under which the engine uses the estimator and the kernel
UsesKernel(cfg) == cfg.penalty_type = "fromp" /\ ~cfg.use_identity_kernel

\* columns of the output once a customize_head hook restricted it
Columns(class_ids) == IF class_ids.some THEN Len(class_ids.val) ELSE NumClasses

\* a constructor that does not check the kernel type
InitErrorNoKernelCheck(ggn_shape, ggn_type, kernel_type) ==
    IF ggn_type \notin _fisher_types THEN "AssertionError"
    ELSE IF ggn_shape \notin _precond_classes THEN "AssertionError"
    ELSE ""

\* FROMP.__init__: the error it raises, if any
InitError(ggn_shape, ggn_type, kernel_type) ==
    IF ggn_type \notin _fisher_types THEN "AssertionError"
    ELSE IF ggn_shape \notin _precond_classes THEN "AssertionError"
    ELSE IF kernel_type \notin _kernel_fns THEN "AssertionError"
    ELSE ""

\* FROMP.__init__: the settings the engine keeps
Settings(temp, n_memorable_points, n_memorable_points_sub, memory_select_method, memory_loss_mode, max_tasks_for_penalty, ggn_shape, ggn_type, kernel_type, use_identity_kernel, penalty_type) ==
    [temp |-> temp,
     max_tasks_for_penalty |-> max_tasks_for_penalty,
     n_memorable_points |-> n_memorable_points,
     n_memorable_points_sub |->
        IF n_memorable_points = 0 \/ n_memorable_points <= n_memorable_points_sub
        THEN NoneInt ELSE n_memorable_points_sub,
     memory_select_method |-> memory_select_method,
     memory_loss_mode |-> memory_loss_mode,
     memory_residual_frac |-> [num |-> 1, den |-> 1],
     use_nn_error_correction |-> FALSE,
     ggn_shape |-> ggn_shape,
     ggn_type |-> ggn_type,
     kernel_type |-> kernel_type,
     use_identity_kernel |-> use_identity_kernel,
     penalty_type |-> penalty_type]


\* the rows the model gives once a customize_head hook selected the columns
\* class_ids: out[p] is the row of point p before the selection
HookedOut(out, class_ids) ==
    [p \in DOMAIN out |->
        IF class_ids.some
        THEN [j \in 1..Len(class_ids.val) |-> out[p][class_ids.val[j] + 1]]
        ELSE out[p]]

\* the hook customize_head registers around the selection (line 337, 345)
SelectionHook(class_ids) == [class_ids |-> class_ids, softmax |-> FALSE, temp |-> 1]

\* the hook customize_head registers around one task (lines 370, 404)
TaskHook(class_ids, penalty_type, temp) ==
    [class_ids |-> class_ids, softmax |-> penalty_type # "der", temp |-> temp]

\* update_regularization_info, lines 369-377: kernel and mean of every task;
\* st = [raised, model, tasks], a raise leaves the hook of its scope behind
\* the call that last set a task's kernel_inv / mean, kept with the task
KernelSetBy(kr, call_no) ==
    IF kr.raised = "" THEN [kr EXCEPT !.task.kernel_call = call_no] ELSE kr

MeanSetBy(mr, old_mean, call_no) ==
    IF mr.raised = "" \/ mr.task.mean # old_mean
    THEN [mr EXCEPT !.task.mean_call = call_no] ELSE mr

\* lines 371-375: task.update_kernel(model, self.kernel_fn) when it applies
RefreshKernel(t, i, cfg, inp, call_no) ==
    IF UsesKernel(cfg)
    THEN KernelSetBy(update_kernel(t, [ndim |-> inp.kernel_ndim, n |-> NumPoints(t),
                                       c |-> Columns(t.class_ids),
                                       singular |-> inp.singular_at = i]),
                     call_no)
    ELSE [raised |-> "", task |-> t]

\* lines 376-377: task.update_mean(model, ...), reached when kr did not raise
RefreshMean(kr, cfg, inp, call_no) ==
    IF kr.raised # "" THEN kr
    ELSE MeanSetBy(update_mean(kr.task, HookedOut(inp.out, kr.task.class_ids),
                               DefaultMaxMemPerBatch, cfg.memory_loss_mode,
                               cfg.memory_residual_frac, Range0(NumPoints(kr.task))),
                   kr.task.mean, call_no)

\* the scope of customize_head around one task: the hook stays when mr raised
LeaveTaskScope(st, i, hooked, mr) ==
    IF mr.raised # ""
    THEN [st EXCEPT !.raised = mr.raised, !.model = hooked, !.tasks[i] = mr.task]
    ELSE [st EXCEPT !.model = RemoveHook(hooked, "module"), !.tasks[i] = mr.task]

\* the calls the loop body makes on one task, kr being what update_kernel left
TaskSteps(cfg, kr) ==
    (IF UsesKernel(cfg) THEN <<"update_kernel">> ELSE << >>)
    \o (IF kr.raised = "" THEN <<"update_mean">> ELSE << >>)

RECURSIVE RefreshTasks(_, _, _, _, _)
RefreshTasks(i, st, cfg, inp, call_no) ==
    IF i > Len(st.tasks) \/ st.raised # "" THEN st
    ELSE RefreshTasks(i + 1,
            LeaveTaskScope([st EXCEPT !.steps =
                               @ \o TaskSteps(cfg, RefreshKernel(st.tasks[i], i, cfg, inp, call_no))],
                           i,
                RegisterHook(st.model, "module",
                             TaskHook(st.tasks[i].class_ids, cfg.penalty_type, cfg.temp)),
                RefreshMean(RefreshKernel(st.tasks[i], i, cfg, inp, call_no),
                            cfg, inp, call_no)),
            cfg, inp, call_no)

\* the estimator calls with the inversion ahead of the accumulation
PrecondCallsInvertFirst(cfg, is_distributed) ==
    IF UsesKernel(cfg)
    THEN <<"update_curvature">>
         \o (IF is_distributed THEN <<"reduce_curvature">> ELSE << >>)
         \o <<"update_inv", "accumulate_curvature">>
    ELSE << >>

\* the estimator calls of update_regularization_info, lines 335-342
PrecondCalls(cfg, is_distributed) ==
    IF UsesKernel(cfg)
    THEN <<"update_curvature">>
         \o (IF is_distributed THEN <<"reduce_curvature">> ELSE << >>)
         \o <<"accumulate_curvature", "update_inv">>
    ELSE << >>

\* update_regularization_info, lines 345-377: r is what the selection
\* returned under the hook of m2, pc what the estimator calls left; steps
\* lists, in order, the calls made and the append of the new task
RegisterAndRefresh(cfg, m2, tasks, call_no, inp, r, pc) ==
    IF r.raised # ""
    THEN [raised |-> r.raised, model |-> m2, tasks |-> tasks,
          precond |-> pc.precond, precond_calls |-> pc.precond_calls,
          steps |-> pc.precond_calls \o <<"collect_memorable_points">>]
    ELSE RefreshTasks(
            FirstRefreshed(AppendTask(tasks, [PastTask(r, inp.class_ids) EXCEPT
                                                 !.registered_by = call_no])),
            [raised |-> "", model |-> RemoveHook(m2, "module"),
             tasks |-> AppendTask(tasks, [PastTask(r, inp.class_ids) EXCEPT
                                             !.registered_by = call_no]),
             precond |-> pc.precond, precond_calls |-> pc.precond_calls,
             steps |-> pc.precond_calls \o <<"collect_memorable_points", "append">>],
            cfg, inp, call_no)

\* FROMP.update_regularization_info as a function of the state and its inputs
update_regularization_info(cfg, m, tasks, pc, call_no, inp) ==
    LET m1 == Eval(m, "module")
        pc1 == IF UsesKernel(cfg)
               THEN [accumulated |-> pc.accumulated + 1, inverted |-> pc.accumulated + 1]
               ELSE pc
        m2 == RegisterHook(m1, "module", SelectionHook(inp.class_ids))
        r == collect_memorable_points(inp.data_loader, cfg.n_memorable_points,
                                      cfg.memory_select_method, cfg.memory_residual_frac,
                                      cfg.use_nn_error_correction, inp.as_tensor,
                                      inp.is_distributed, cfg.n_memorable_points_sub,
                                      inp.dist, inp.order, inp.order)
    IN RegisterAndRefresh(cfg, m2, tasks, call_no, inp, r,
                          [precond |-> pc1,
                           precond_calls |-> PrecondCalls(cfg, inp.is_distributed)])


\* model calls one _evaluate_mean makes
ForwardCalls(t, n_memorable_points_sub, idx) ==
    IF ~t.as_tensor THEN BatchesRead(BatchSizes(t), 1, n_memorable_points_sub)
    ELSE IF idx.some /\ \E k \in 1..Len(idx.val) : idx.val[k] \notin 0..(NumPoints(t) - 1)
         THEN 0 ELSE 1

\* PastTask.get_penalty: the error it raises, if any
PastTaskPenaltyError(t, out, n_memorable_points_sub, idx, use_kprior_penalty) ==
    IF ~t.mean.some THEN "AssertionError"
    ELSE LET ev == _evaluate_mean(t, out, n_memorable_points_sub, idx)
         IN IF ev.raised # "" THEN ev.raised
            ELSE PenaltyShapes(t, ev.rows, idx, use_kprior_penalty)

\* FROMP.get_penalty, lines 402-405: the loop over the selected tasks;
\* st = [raised, model, n_forward, broadcast_seen]
RECURSIVE PenaltyLoop(_, _, _, _, _)
PenaltyLoop(indices, st, cfg, tasks, inp) ==
    IF indices = << >> \/ st.raised # "" THEN st
    ELSE LET t == tasks[Head(indices) + 1]
             target == SelfModel(st.model)
             hooked == RegisterHook(st.model, target,
                                    TaskHook(t.class_ids, cfg.penalty_type, cfg.temp))
             n_fwd == IF t.mean.some
                      THEN ForwardCalls(t, cfg.n_memorable_points_sub, inp.mem_indices) ELSE 0
             err == PastTaskPenaltyError(t, HookedOut(inp.out, t.class_ids),
                                         cfg.n_memorable_points_sub, inp.mem_indices,
                                         inp.use_kprior_penalty)
             seen == IF n_fwd > 0 /\ hooked.is_ddp
                     THEN st.broadcast_seen \cup {hooked.broadcast_buffers}
                     ELSE st.broadcast_seen
         IN IF err # ""
            THEN [st EXCEPT !.raised = err, !.model = hooked,
                            !.n_forward = @ + n_fwd, !.broadcast_seen = seen]
            ELSE PenaltyLoop(Tail(indices),
                             [st EXCEPT !.model = RemoveHook(hooked, target),
                                        !.n_forward = @ + n_fwd, !.broadcast_seen = seen],
                             cfg, tasks, inp)

\* FROMP.get_penalty as a function of the state and its inputs (the value
\* it returns is the subject of SpecPenalty)
get_penalty(cfg, m, tasks, inp) ==
    IF ~is_ready(tasks)
    THEN [raised |-> "AssertionError", model |-> m, n_forward |-> 0, broadcast_seen |-> {}]
    ELSE LET m1 == Eval(m, SelfModel(m))
             max_tasks == IF inp.max_tasks = NoneInt THEN cfg.max_tasks_for_penalty
                          ELSE inp.max_tasks
             n_observed_tasks == Len(tasks)
             indices == IF max_tasks # NoneInt /\ max_tasks < n_observed_tasks
                        THEN inp.sample ELSE Range0(n_observed_tasks)
             tmp == m1.broadcast_buffers
             st == PenaltyLoop(indices,
                               [raised |-> "", model |-> DisableBroadcast(m1),
                                n_forward |-> 0, broadcast_seen |-> {}],
                               cfg, tasks, inp)
         IN IF st.raised # "" THEN st
            ELSE [st EXCEPT !.model = RestoreBroadcast(st.model, tmp)]


(***************************************************************************)
(* Spec: the engine as a state machine.  The inputs explored:              *)
(***************************************************************************)
\* sequences that hold each of 0..n-1 once
Orders(n) == {o \in [1..n -> 0..(n - 1)] : \A i, j \in 1..n : o[i] = o[j] => i = j}

EngineShapes == {"diag", "full"}

EngineFisherTypes == {"exact", "empirical"}

EngineKernelTypes == {"implicit", "rbf"}

EngineSelectMethods == {"lambda_descend", "herding"}

EngineLossModes == {"soft_all", "soft_correct"}

EnginePenaltyTypes == {"fromp", "der"}

EngineLoaders ==
    {[dataset |-> [targets |-> <<0, 1>>, offset |-> 0], batch_size |-> 2]}

\* point ids of the datasets above
EnginePointIds == 0..1

\* what the model predicts for the points 0 and 1 (labels 0 and 1) when an
\* update evaluates it: both right, the second wrong, both wrong
EngineOuts ==
    LET row(k) == [j \in 1..NumClasses |-> IF j = k + 1 THEN One - 10 * (NumClasses - 1) ELSE 10]
    IN {[p \in EnginePointIds |-> row(p)],
        [p \in EnginePointIds |-> row(0)],
        [p \in EnginePointIds |-> row(1 - p)]}

\* ranks of the kernel tensor the kernel function may return
EngineKernelNdims == {2, 4}

\* class_ids the caller passes: the head of a multi-head network, in the
\* order its task lists the classes, or None for a single-head network
EngineClassIds(m) == IF m.multi_head THEN {Some(<<1, 0>>)} ELSE {None}

NoLast == [op |-> "none", raised |-> "", n_forward |-> 0, broadcast_seen |-> {},
           precond_calls |-> << >>, steps |-> << >>, is_distributed |-> FALSE]

\* the networks explored: plain or wrapped in DistributedDataParallel (with
\* its broadcast_buffers flag either way), single- or multi-head, in
\* training mode and without forward hooks
Models ==
    {[is_ddp |-> d, broadcast_buffers |-> b, multi_head |-> h,
      training |-> [wrapper |-> d, module |-> TRUE],
      hooks |-> [wrapper |-> << >>, module |-> << >>]] :
        d \in BOOLEAN, b \in BOOLEAN, h \in BOOLEAN} \
    {[is_ddp |-> FALSE, broadcast_buffers |-> TRUE, multi_head |-> h,
      training |-> [wrapper |-> FALSE, module |-> TRUE],
      hooks |-> [wrapper |-> << >>, module |-> << >>]] : h \in BOOLEAN}

TotalHooks(m) == Len(m.hooks.wrapper) + Len(m.hooks.module)

Init ==
    /\ fromp = None
    /\ model \in Models
    /\ observed_tasks = << >>
    /\ precond = [accumulated |-> 0, inverted |-> 0]
    /\ calls = [ok |-> 0, failed |-> 0]
    /\ last = NoLast
    /\ sel_in = None /\ sel_out = None
    /\ task = None /\ task_log = None
    /\ pen = None

\* whether the selection of an update raises, whatever the model gives
SelectionRaises(cfg, data_loader, as_tensor, is_distributed, dist, order) ==
    collect_memorable_points(data_loader, cfg.n_memorable_points, cfg.memory_select_method,
                             cfg.memory_residual_frac, cfg.use_nn_error_correction, as_tensor,
                             is_distributed, cfg.n_memorable_points_sub, dist, order,
                             order).raised # ""

\* FROMP(model, ...)
Construct ==
    /\ ~fromp.some
    /\ \E ggn_shape \in EngineShapes, ggn_type \in EngineFisherTypes,
          kernel_type \in EngineKernelTypes, memory_select_method \in EngineSelectMethods,
          memory_loss_mode \in EngineLossModes, penalty_type \in EnginePenaltyTypes :
       \E use_identity_kernel \in (IF penalty_type = "fromp" THEN BOOLEAN ELSE {FALSE}) :
        LET err == InitError(ggn_shape, ggn_type, kernel_type)
        IN /\ fromp' = IF err # "" THEN None
                       ELSE Some(Settings(1, 2, 10, memory_select_method,
                                          memory_loss_mode, NoneInt, ggn_shape,
                                          ggn_type, kernel_type, use_identity_kernel,
                                          penalty_type))
           /\ last' = [NoLast EXCEPT !.op = "init", !.raised = err]
    /\ UNCHANGED <<model, observed_tasks, precond, calls, select_vars, task_vars, pen>>

\* fr.update_regularization_info(data_loader, class_ids, ...)
UpdateRegularizationInfo ==
    /\ fromp.some
    /\ calls.ok + calls.failed < MaxCalls
    /\ \E data_loader \in EngineLoaders, class_ids \in EngineClassIds(model),
          as_tensor \in BOOLEAN, is_distributed \in BOOLEAN :
       \E dist \in (IF is_distributed
                    THEN {[rank |-> r, world_size |-> 2] : r \in 0..1}
                    ELSE {[rank |-> 0, world_size |-> 1]}) :
       \E order \in Orders(Len(SelectionDataset(data_loader, is_distributed, dist).targets)) :
       \* the kernel and the outputs matter once the selection went through
       \E out \in (IF SelectionRaises(fromp.val, data_loader, as_tensor, is_distributed, dist, order)
                   THEN {CHOOSE o \in EngineOuts : TRUE} ELSE EngineOuts),
          kernel_ndim \in (IF UsesKernel(fromp.val) THEN EngineKernelNdims ELSE {4}) :
       \E singular_at \in (IF UsesKernel(fromp.val) /\ kernel_ndim \in {3, 4}
                           THEN 0..(Len(observed_tasks) + 1) ELSE {0}) :
       \E res \in {update_regularization_info(
                        fromp.val, model, observed_tasks, precond, calls.ok + calls.failed + 1,
                        [data_loader |-> data_loader, class_ids |-> class_ids,
                         as_tensor |-> as_tensor, is_distributed |-> is_distributed,
                         dist |-> dist, order |-> order, out |-> out,
                         kernel_ndim |-> kernel_ndim, singular_at |-> singular_at])} :
           /\ model' = res.model
           /\ observed_tasks' = res.tasks
           /\ precond' = res.precond
           /\ calls' = IF res.raised = "" THEN [calls EXCEPT !.ok = @ + 1]
                       ELSE [calls EXCEPT !.failed = @ + 1]
           /\ last' = [NoLast EXCEPT !.op = "update_regularization_info",
                                     !.raised = res.raised,
                                     !.precond_calls = res.precond_calls,
                                     !.steps = res.steps,
                                     !.is_distributed = is_distributed]
    /\ UNCHANGED <<fromp, select_vars, task_vars, pen>>

\* fr.get_penalty(mem_indices=..., use_kprior_penalty=...)
GetPenalty ==
    /\ fromp.some
    /\ TotalHooks(model) < MaxHooks
    /\ \E mem_indices \in {None, Some(<<1>>)},
          use_kprior_penalty \in BOOLEAN,
          max_tasks \in {NoneInt, 1} :
       \E sample \in (IF max_tasks # NoneInt /\ max_tasks < Len(observed_tasks)
                      THEN {<<i>> : i \in 0..(Len(observed_tasks) - 1)} ELSE {<< >>}) :
        LET res == get_penalty(fromp.val, model, observed_tasks,
                               [mem_indices |-> mem_indices, max_tasks |-> max_tasks,
                                use_kprior_penalty |-> use_kprior_penalty,
                                out |-> CHOOSE o \in EngineOuts : TRUE, sample |-> sample])
        IN /\ model' = res.model
           /\ last' = [NoLast EXCEPT !.op = "get_penalty", !.raised = res.raised,
                                     !.n_forward = res.n_forward,
                                     !.broadcast_seen = res.broadcast_seen]
    /\ UNCHANGED <<fromp, observed_tasks, precond, calls, select_vars, task_vars, pen>>

Next == Construct \/ UpdateRegularizationInfo \/ GetPenalty

Spec == Init /\ [][Next]_vars


(***************************************************************************)
(* Properties of the engine (Spec)                                         *)
(***************************************************************************)
\* number of update_regularization_info calls made so far
CallsMade == calls.ok + calls.failed

\* C1: while every update_regularization_info call so far succeeded,
\* observed_tasks has one task per call, the i-th being the one the i-th
\* call registered; and no step of the engine removes, replaces or reorders
\* a task that is already in the list
C1_TasksAccumulate ==
    /\ [](calls.failed = 0 =>
            /\ Len(observed_tasks) = calls.ok
            /\ \A i \in 1..Len(observed_tasks) : observed_tasks[i].registered_by = i)
    /\ [][/\ Len(observed_tasks') >= Len(observed_tasks)
          /\ \A i \in 1..Len(observed_tasks) :
                observed_tasks'[i].registered_by = observed_tasks[i].registered_by]_vars

\* two successful registrations followed by a penalty evaluation
C1_Witness ==
    /\ calls = [ok |-> 2, failed |-> 0]
    /\ Len(observed_tasks) = 2
    /\ last.op = "get_penalty" /\ last.raised = ""

C3_NotReadyFailsFirst ==
    [][(observed_tasks = << >> /\ last'.op = "get_penalty") =>
          /\ last'.raised = "AssertionError"
          /\ last'.n_forward = 0
          /\ model' = model
          /\ observed_tasks' = observed_tasks
          /\ precond' = precond
          /\ fromp' = fromp]_vars

\* a refused get_penalty call on a network still in training mode
C3_Witness ==
    /\ fromp.some /\ observed_tasks = << >>
    /\ last.op = "get_penalty" /\ last.raised = "AssertionError"
    /\ model.training.module

\* C5 as claimed: whenever a call of the engine has ended, normally or by
\* an error, no customize_head hook is registered on the model
C5_NoHookRemains == TotalHooks(model) = 0

\* C6 as claimed: across a get_penalty call on a DistributedDataParallel
\* model the broadcast_buffers flag is off at every forward pass and has its
\* previous value once the call is over
C6_BroadcastScoped ==
    [][(model.is_ddp /\ last'.op = "get_penalty") =>
          /\ last'.broadcast_seen \subseteq {FALSE}
          /\ model'.broadcast_buffers = model.broadcast_buffers]_vars

\* the three settings FROMP.__init__ checks
InitSettingsSupported(cfg) ==
    /\ cfg.ggn_shape \in _precond_classes
    /\ cfg.ggn_type \in _fisher_types
    /\ cfg.kernel_type \in _kernel_fns

\* C7 as claimed: no engine exists with an unsupported value of any of the
\* four settings
C7_AllFourCheckedAtConstruction ==
    fromp.some => /\ InitSettingsSupported(fromp.val)
                  /\ fromp.val.memory_select_method \in SelectMethods

\* C7 as amended: no engine exists with an unsupported curvature shape,
\* curvature type or kernel type; an engine with an unsupported selection
\* method exists, registers no task, and each of its
\* update_regularization_info calls raises the assertion error
C7_ThreeCheckedAtConstruction ==
    /\ fromp.some => InitSettingsSupported(fromp.val)
    /\ (fromp.some /\ fromp.val.memory_select_method \notin SelectMethods) =>
          /\ observed_tasks = << >>
          /\ last.op = "update_regularization_info" => last.raised = "AssertionError"
    /\ (last.op = "init" /\ last.raised # "") => ~fromp.some

\* an engine built with an unsupported selection method, whose update call
\* has just been refused
C7_Witness ==
    /\ fromp.some /\ fromp.val.memory_select_method \notin SelectMethods
    /\ last.op = "update_regularization_info" /\ last.raised = "AssertionError"


(***************************************************************************)
(* SpecSelect: collect_memorable_points on the inputs below                *)
(***************************************************************************)
\* rotations of a sequence
Rotations(o) ==
    {[i \in 1..Len(o) |-> o[((i - 1 + r) % Len(o)) + 1]] : r \in 0..(Len(o) - 1)}

\* rankings explored for n indices: the rotations of 0..n-1 and of n-1..0
SomeOrders(n) ==
    IF n = 0 THEN {<< >>}
    ELSE Rotations(Range0(n)) \cup Rotations([i \in 1..n |-> n - i])

\* label sequences explored: a block of one label followed by a block of
\* another, up to MaxData examples
SelectTargets ==
    {[i \in 1..len |-> IF i <= k THEN ab[1] ELSE ab[2]] :
        len \in 1..MaxData, k \in 0..MaxData, ab \in {<<0, 1>>, <<1, 0>>}}

SelectInputs ==
    {[data_loader |-> [dataset |-> [targets |-> t, offset |-> off], batch_size |-> 2],
      n_memorable_points |-> n, select_method |-> m,
      use_nn_error_correction |-> ec.on, memory_residual_frac |-> ec.frac,
      as_tensor |-> at] :
        t \in SelectTargets, off \in {0, 10}, n \in 0..MaxRequest, m \in SelectMethods,
        ec \in {[on |-> FALSE, frac |-> [num |-> 1, den |-> 1]],
                [on |-> TRUE, frac |-> [num |-> 0, den |-> 1]],
                [on |-> TRUE, frac |-> [num |-> 1, den |-> 2]],
                [on |-> TRUE, frac |-> [num |-> 1, den |-> 1]]},
        at \in BOOLEAN}

InitSelect ==
    /\ sel_in \in SelectInputs
    /\ sel_out = None
    /\ fromp = None
    /\ model = CHOOSE m \in Models : TRUE
    /\ observed_tasks = << >>
    /\ precond = [accumulated |-> 0, inverted |-> 0]
    /\ calls = [ok |-> 0, failed |-> 0]
    /\ last = NoLast
    /\ task = None /\ task_log = None
    /\ pen = None

\* size of the dataset of sel_in
SelDataSize == Len(sel_in.data_loader.dataset.targets)

\* collect_memorable_points(model, data_loader, ...), with the ranking the
\* scores give or numpy draws
CollectMemorablePoints ==
    /\ ~sel_out.some
    /\ \E order \in SomeOrders(SelDataSize), ec_order \in SomeOrders(SelDataSize) :
        sel_out' = Some(collect_memorable_points(
                            sel_in.data_loader, sel_in.n_memorable_points, sel_in.select_method,
                            sel_in.memory_residual_frac, sel_in.use_nn_error_correction,
                            sel_in.as_tensor, FALSE, NoneInt, [rank |-> 0, world_size |-> 1],
                            order, ec_order))
    /\ UNCHANGED <<sel_in, engine_vars, task_vars, pen>>

NextSelect == CollectMemorablePoints

SpecSelect == InitSelect /\ [][NextSelect]_vars

\* the selection went through
Selected == sel_out.some /\ sel_out.val.raised = ""

\* error-correction augmentation is in effect
SelWithEc == sel_in.use_nn_error_correction /\ sel_in.memory_residual_frac.num > 0

\* C8 as claimed: a request for at least as many points as the dataset holds
\* returns the indices 0..d-1, each once, whatever the method and whether
\* or not error correction is enabled
C8_AllIndicesWhenExhausted ==
    (Selected /\ sel_in.n_memorable_points >= SelDataSize) =>
        /\ Len(sel_out.val.memorable_points_indices) = SelDataSize
        /\ SeqToSet(sel_out.val.memorable_points_indices) = 0..(SelDataSize - 1)

\* C8 as amended: without error-correction augmentation a request for at
\* least as many points as the dataset holds returns 0..d-1 in ascending
\* order, whatever the method
C8_AllIndicesWithoutErrorCorrection ==
    (Selected /\ ~SelWithEc /\ sel_in.n_memorable_points >= SelDataSize) =>
        sel_out.val.memorable_points_indices = Range0(SelDataSize)

\* a random global selection asked for exactly the three points of a dataset
C8_Witness ==
    /\ Selected /\ ~SelWithEc
    /\ sel_in.select_method = "random_global"
    /\ SelDataSize = 3 /\ sel_in.n_memorable_points = 3
    /\ sel_out.val.memorable_points_indices = <<0, 1, 2>>

\* the points the primary selection was asked for and the indices it gave
SelErrorCorrectionPoints ==
    IF SelWithEc THEN IntMulFrac(sel_in.n_memorable_points, sel_in.memory_residual_frac) ELSE 0

SelPrimaryRequest == sel_in.n_memorable_points - SelErrorCorrectionPoints

SelPrimary ==
    LET all == sel_out.val.memorable_points_indices
    IN SubSeq(all, 1, Len(all) - (IF SelWithEc THEN Min(SelErrorCorrectionPoints, SelDataSize) ELSE 0))

SelClasses == SeqToSet(sel_in.data_loader.dataset.targets)

\* number of selected primary indices whose example has label cls
SelFromClass(cls) ==
    Cardinality({i \in 1..Len(SelPrimary) :
                    sel_in.data_loader.dataset.targets[SelPrimary[i] + 1] = cls})

\* the case of a class-balanced selection
SelClassBalanced ==
    /\ Selected
    /\ ~IsGlobalMethod(sel_in.select_method)
    /\ SelPrimaryRequest >= 0
    /\ SelPrimaryRequest < SelDataSize

\* C9 as claimed: in a class-balanced selection of n < d points every class
\* contributes exactly floor(n/k) indices
C9_ExactShare ==
    SelClassBalanced =>
        \A cls \in SelClasses :
            SelFromClass(cls) = SelPrimaryRequest \div Cardinality(SelClasses)

\* C9 as amended: every class contributes floor(n/k) indices, or all its
\* examples when it has fewer; the total is at most k*floor(n/k) <= n
C9_ShareOrWholeClass ==
    SelClassBalanced =>
        /\ \A cls \in SelClasses :
              SelFromClass(cls) =
                  Min(SelPrimaryRequest \div Cardinality(SelClasses),
                      Count(sel_in.data_loader.dataset.targets, cls))
        /\ Len(SelPrimary) <= Cardinality(SelClasses) * (SelPrimaryRequest \div Cardinality(SelClasses))
        /\ Len(SelPrimary) <= SelPrimaryRequest

\* four points asked of a dataset with one example of label 0 and four of
\* label 1: the small class gives its one example, the other its share of 2
C9_Witness ==
    /\ SelClassBalanced /\ ~SelWithEc
    /\ sel_in.data_loader.dataset.targets = <<0, 1, 1, 1, 1>>
    /\ sel_in.n_memorable_points = 4
    /\ SelFromClass(0) = 1 /\ SelFromClass(1) = 2


(***************************************************************************)
(* SpecTask: one PastTask, built from a selection, and its update_mean     *)
(***************************************************************************)
\* the selections a PastTask is built from: every point or some of them, as
\* a tensor or as a DataLoader with batches of up to 2 points
TaskSelections ==
    UNION {{collect_memorable_points(
                [dataset |-> [targets |-> t, offset |-> 0], batch_size |-> 2],
                n, "random_global", [num |-> 1, den |-> 1], FALSE, at, FALSE, NoneInt,
                [rank |-> 0, world_size |-> 1], order, order) :
              n \in 1..MaxPoints, at \in BOOLEAN,
              order \in {Range0(Len(t)), [i \in 1..Len(t) |-> Len(t) - i]}} :
           t \in {tt \in SelectTargets : Len(tt) <= MaxPoints}}

\* rows a model gives for a point: sure of class 0, sure of class 1, unsure
TaskRows == {<<One, 0>>, <<0, One>>, <<60, 40>>}

\* outputs of the model at the points: one row for point 0, one for the rest
TaskOuts == {[p \in 0..(MaxPoints - 1) |-> IF p = 0 THEN a ELSE b] : a, b \in TaskRows}

\* class_ids of the task: absent, the classes in order, the classes reversed
TaskClassIds == {None, Some(<<0, 1>>), Some(<<1, 0>>)}

InitTask ==
    /\ \E r \in TaskSelections, class_ids \in TaskClassIds :
          /\ r.raised = ""
          /\ task = Some(PastTask(r, class_ids))
    /\ task_log = None
    /\ sel_in = None /\ sel_out = None
    /\ fromp = None
    /\ model = CHOOSE m \in Models : TRUE
    /\ observed_tasks = << >>
    /\ precond = [accumulated |-> 0, inverted |-> 0]
    /\ calls = [ok |-> 0, failed |-> 0]
    /\ last = NoLast
    /\ pen = None

\* calls made on the task so far
TaskUpdates == IF task_log.some THEN task_log.val.updates ELSE 0

\* task.update_mean(model, max_mem_per_batch, memory_loss_mode, memory_residual_frac)
UpdateMean ==
    /\ task.some
    /\ TaskUpdates < MaxUpdates
    \* the owner of the task passes the same settings on every refresh
    /\ \E out \in TaskOuts,
          max_mem_per_batch \in (IF task_log.some THEN {task_log.val.max_mem_per_batch}
                                 ELSE (1..MaxChunk) \cup {DefaultMaxMemPerBatch}),
          memory_loss_mode \in (IF task_log.some THEN {task_log.val.memory_loss_mode}
                                ELSE MemoryLossModes) :
       \E memory_residual_frac \in (IF task_log.some THEN {task_log.val.memory_residual_frac}
                                    ELSE IF memory_loss_mode = "soft_low_residual_hard_rest"
                                    THEN {[num |-> 1, den |-> 2], [num |-> 1, den |-> 1]}
                                    ELSE {[num |-> 1, den |-> 1]}) :
       \E res \in {update_mean(task.val, out, max_mem_per_batch, memory_loss_mode,
                               memory_residual_frac, Range0(MaxPoints))} :
          /\ task' = Some(res.task)
          /\ task_log' = Some([op |-> "update_mean", raised |-> res.raised,
                               updates |-> TaskUpdates + 1,
                               memory_loss_mode |-> memory_loss_mode,
                               max_mem_per_batch |-> max_mem_per_batch,
                               memory_residual_frac |-> memory_residual_frac,
                               \* history: the task the call found, and the
                               \* rows the model gave for its points
                               before |-> task.val,
                               soft |-> EvaluateMeanInBatches(task.val, out, max_mem_per_batch),
                               current_points |-> << >>, mean_points |-> << >>])
    /\ UNCHANGED <<engine_vars, select_vars, pen>>

\* a model that answers each point with the id of the point, to tell which
\* points the rows of an evaluation stand for
PointIds == [p \in 0..(MaxPoints - 1) |-> p]

\* the points the rows of the stored mean stand for, in order: the rows
\* update_mean evaluated (lines 66-74), or with hard_all one per true target
MeanPoints(t, memory_loss_mode, max_mem_per_batch) ==
    IF memory_loss_mode = "hard_all" THEN t.memorable_points
    ELSE EvaluateMeanInBatches(t, PointIds, max_mem_per_batch).rows

\* self.mean[idx] if idx is not None else self.mean, line 146, on the points
\* of the rows
StoredRows(mean_points, idx) ==
    IF ~idx.some THEN [raised |-> "", rows |-> mean_points]
    ELSE IF \E k \in 1..Len(idx.val) : idx.val[k] \notin 0..(Len(mean_points) - 1)
    THEN [raised |-> "IndexError", rows |-> << >>]
    ELSE [raised |-> "", rows |-> [k \in 1..Len(idx.val) |-> mean_points[idx.val[k] + 1]]]

\* index restrictions and caps get_penalty is called with
PenaltyIdx == {None, Some(<<0>>), Some(<<1, 0>>)}

PenaltySubs == {NoneInt} \cup (1..MaxChunk)

\* task.get_penalty(model, n_memorable_points_sub, idx, use_kprior_penalty)
\* on a task whose mean the last update_mean stored
TaskGetPenalty ==
    /\ task.some /\ task.val.mean.some
    /\ task_log.some /\ task_log.val.op = "update_mean" /\ task_log.val.raised = ""
    \* which error is raised depends on the shapes of the outputs only
    /\ \E out \in {CHOOSE o \in TaskOuts : TRUE}, idx \in PenaltyIdx,
          n_memorable_points_sub \in PenaltySubs, use_kprior_penalty \in BOOLEAN :
          task_log' = [task_log EXCEPT
                         !.val.op = "get_penalty",
                         !.val.raised = PastTaskPenaltyError(task.val, out, n_memorable_points_sub,
                                                             idx, use_kprior_penalty),
                         \* history: the points behind current_mean (line 145)
                         \* and behind mean (line 146)
                         !.val.current_points =
                             _evaluate_mean(task.val, PointIds, n_memorable_points_sub, idx),
                         !.val.mean_points =
                             StoredRows(MeanPoints(task.val, task_log.val.memory_loss_mode,
                                                   task_log.val.max_mem_per_batch), idx)]
    /\ UNCHANGED <<task, engine_vars, select_vars, pen>>

NextTask == UpdateMean \/ TaskGetPenalty

SpecTask == InitTask /\ [][NextTask]_vars

\* update_mean was the last call on the task and it completed
UpdateMeanCompleted ==
    task.some /\ task_log.some /\ task_log.val.op = "update_mean" /\ task_log.val.raised = ""

\* C4: after update_mean completes, n_memorable_points, len(memorable_points),
\* len(mean) and len(memorable_points_indices) are equal, in every mode and
\* for a tensor as for a DataLoader of memorable points
C4_CountsAgree ==
    UpdateMeanCompleted =>
        /\ task.val.n_memorable_points =
              LenMemorablePoints(task.val.as_tensor, task.val.memorable_points, task.val.batch_size)
        /\ task.val.n_memorable_points = Len(task.val.mean.val)
        /\ task.val.n_memorable_points = Len(task.val.memorable_points_indices)


(***************************************************************************)
(* SpecPenalty: the value FROMP.get_penalty returns.  Logits are integers  *)
(* in units of ln 2, so that softmax is a ratio of powers of 2; softmax    *)
(* outputs are fixed-point with One for 1.0; a scalar is num/den.          *)
(***************************************************************************)
\* F.softmax(output, dim=1) of one row
Softmax(row) ==
    [j \in 1..Len(row) |->
        (One * (2 ^ row[j])) \div SumSeq([k \in 1..Len(row) |-> 2 ^ row[k]])]

\* customize_head.forward_hook on the (n, c) output of the model
forward_hook(output, hook) ==
    [i \in 1..Len(output) |->
        LET divided == [j \in 1..Len(output[i]) |-> output[i][j] \div hook.temp]
            picked == IF hook.class_ids.some
                      THEN [j \in 1..Len(hook.class_ids.val) |->
                               divided[hook.class_ids.val[j] + 1]]
                      ELSE divided
        IN IF hook.softmax THEN Softmax(picked) ELSE picked]

RECURSIVE Flatten(_)
Flatten(rows) == IF rows = << >> THEN << >> ELSE Head(rows) \o Flatten(Tail(rows))

\* torch.dot
Dot(b, v) == SumSeq([i \in 1..Len(b) |-> b[i] * v[i]])

\* PastTask.get_penalty on the current output: kernel_inv is None or the
\* diagonal of an (nc, nc) matrix
TaskPenaltyValue(t, current_mean) ==
    LET b == Flatten([i \in 1..Len(current_mean) |->
                        [j \in 1..Len(current_mean[i]) |-> current_mean[i][j] - t.mean[i][j]]])
    IN IF ~t.kernel_inv.some THEN Dot(b, b)
       ELSE Dot(b, [i \in 1..Len(b) |-> t.kernel_inv.val[i] * b[i]])

\* a correction that grows with temp instead of its square
TempCorrectionLinear(use_temp_correction, temp) == IF use_temp_correction THEN temp ELSE 1

\* FROMP.get_penalty, line 407: temp_corr
TempCorrection(use_temp_correction, temp) == IF use_temp_correction THEN temp ^ 2 ELSE 1

\* FROMP.get_penalty, lines 400-405: total_penalty
TotalPenalty(e, temp) ==
    SumSeq([i \in 1..Len(e.tasks) |->
              TaskPenaltyValue(e.tasks[i],
                               forward_hook(e.logits,
                                            TaskHook(e.tasks[i].class_ids, e.penalty_type, temp)))])

\* FROMP.get_penalty(temp=temp) of an engine e built with use_temp_correction:
\* 0.5 * tau * temp_corr * total_penalty
PenaltyValue(e, temp, use_temp_correction) ==
    [num |-> e.tau * TempCorrection(use_temp_correction, temp) * TotalPenalty(e, temp),
     den |-> 2]

\* the logits of the model at the one memorable point: even, so that a
\* division by temp = 2 is exact
PenLogits == {<<<<a, b>>>> : a, b \in {0, 2}}

PenTemps == {1, 2}

NoValues == [k \in BOOLEAN \X PenTemps |-> None]

InitPenalty ==
    /\ \E tau \in {1, 3}, temp \in PenTemps, penalty_type \in EnginePenaltyTypes,
          logits \in PenLogits :
          pen = Some([tau |-> tau, temp |-> temp, penalty_type |-> penalty_type,
                      logits |-> logits, tasks |-> << >>, values |-> NoValues])
    /\ sel_in = None /\ sel_out = None
    /\ task = None /\ task_log = None
    /\ fromp = None
    /\ model = CHOOSE m \in Models : TRUE
    /\ observed_tasks = << >>
    /\ precond = [accumulated |-> 0, inverted |-> 0]
    /\ calls = [ok |-> 0, failed |-> 0]
    /\ last = NoLast

\* update_regularization_info down to what the penalty reads: a new task
\* whose mean is the output under the hook of the engine's own temp
PenRegisterTask ==
    /\ pen.some
    /\ Len(pen.val.tasks) < MaxPenTasks
    /\ \E class_ids \in {None, Some(<<1, 0>>)}, weight \in {0, 2} :
        LET mean == forward_hook(pen.val.logits,
                                 TaskHook(class_ids, pen.val.penalty_type, pen.val.temp))
            t == [class_ids |-> class_ids, mean |-> mean,
                  kernel_inv |-> IF weight = 0 \/ pen.val.penalty_type = "der" THEN None
                                 ELSE Some([i \in 1..Len(Flatten(mean)) |-> weight])]
        IN pen' = Some([pen.val EXCEPT !.tasks = Append(@, t), !.values = NoValues])
    /\ UNCHANGED <<engine_vars, select_vars, task_vars>>

\* a training step moves the model
PenTrainStep ==
    /\ pen.some
    /\ \E logits \in PenLogits \ {pen.val.logits} :
        pen' = Some([pen.val EXCEPT !.logits = logits, !.values = NoValues])
    /\ UNCHANGED <<engine_vars, select_vars, task_vars>>

\* fr.get_penalty(temp=temp), with use_temp_correction as the engine was built
PenGetPenalty ==
    /\ pen.some
    /\ Len(pen.val.tasks) > 0
    /\ \E temp \in PenTemps, use_temp_correction \in BOOLEAN :
        /\ ~pen.val.values[<<use_temp_correction, temp>>].some
        /\ pen' = Some([pen.val EXCEPT !.values[<<use_temp_correction, temp>>] =
                            Some(PenaltyValue(pen.val, temp, use_temp_correction))])
    /\ UNCHANGED <<engine_vars, select_vars, task_vars>>

NextPenalty == PenRegisterTask \/ PenTrainStep \/ PenGetPenalty

SpecPenalty == InitPenalty /\ [][NextPenalty]_vars

\* get_penalty was called with both settings named, on the same state
PenBoth(k1, k2) == pen.some /\ pen.val.values[k1].some /\ pen.val.values[k2].some

\* C10 as claimed: with temperature correction, get_penalty(temp=2) returns
\* 4 times what get_penalty(temp=1) returns on the same state
C10_FourTimesTempOne ==
    PenBoth(<<TRUE, 2>>, <<TRUE, 1>>) =>
        /\ pen.val.values[<<TRUE, 2>>].val.den = pen.val.values[<<TRUE, 1>>].val.den
        /\ pen.val.values[<<TRUE, 2>>].val.num = 4 * pen.val.values[<<TRUE, 1>>].val.num

\* C10 as amended: with temperature correction, get_penalty(temp=2) returns
\* 4 times what the same call returns without the correction, and
\* get_penalty(temp=1) returns the same with and without it
C10_FourTimesUncorrected ==
    /\ PenBoth(<<TRUE, 2>>, <<FALSE, 2>>) =>
        /\ pen.val.values[<<TRUE, 2>>].val.den = pen.val.values[<<FALSE, 2>>].val.den
        /\ pen.val.values[<<TRUE, 2>>].val.num = 4 * pen.val.values[<<FALSE, 2>>].val.num
    /\ PenBoth(<<TRUE, 1>>, <<FALSE, 1>>) =>
        pen.val.values[<<TRUE, 1>>].val = pen.val.values[<<FALSE, 1>>].val

\* both calls at temp = 2 were made on a state whose penalty is not zero
C10_Witness ==
    /\ PenBoth(<<TRUE, 2>>, <<FALSE, 2>>)
    /\ pen.val.values[<<FALSE, 2>>].val.num > 0
    /\ pen.val.values[<<TRUE, 2>>].val.num = 4 * pen.val.values[<<FALSE, 2>>].val.num


(***************************************************************************)
(* SpecKernel: the tensor work of PastTask.update_kernel and of the        *)
(* quadratic form of PastTask.get_penalty.  A tensor is a nested sequence, *)
(* t[i][j][k] being the entry at (i-1, j-1, k-1).                          *)
(***************************************************************************)
\* kernel.transpose(0, 2) of an (n, n, c) tensor: a (c, n, n) tensor whose
\* entry (k, j, i) is the entry (i, j, k) of kernel
Transpose02(kernel) ==
    [k \in 1..Len(kernel[1][1]) |->
        [j \in 1..Len(kernel[1]) |->
            [i \in 1..Len(kernel) |-> kernel[i][j][k]]]]

\* update_kernel, lines 52-53: the reshape of a 3-D kernel
ReshapeKernel3(kernel) == Transpose02(kernel)

\* t.transpose(0, 1) of a 2-D tensor
Transpose01(t) ==
    [k \in 1..Len(t[1]) |-> [i \in 1..Len(t) |-> t[i][k]]]

\* torch.mv / one matrix of torch.matmul
MatVec(m, x) == [i \in 1..Len(m) |-> Dot(m[i], x)]

\* get_penalty, line 165: v.transpose(0, 1).flatten() of the (c, n, 1) product
FlattenProduct(v) == Flatten(Transpose01(v))

\* get_penalty, lines 151-168: b is the (n, c) difference, kernel_inv is
\* [ndim |-> 0] for None, or [ndim |-> 2, m |-> (nc, nc) matrix], or
\* [ndim |-> 3, m |-> c matrices (n, n)]
QuadraticPenalty(b, kernel_inv) ==
    IF kernel_inv.ndim = 0 THEN Dot(Flatten(b), Flatten(b))
    ELSE IF kernel_inv.ndim = 2 THEN Dot(Flatten(b), MatVec(kernel_inv.m, Flatten(b)))
    ELSE Dot(Flatten(Transpose01(b)),
             FlattenProduct([k \in 1..Len(kernel_inv.m) |->
                               MatVec(kernel_inv.m[k], Transpose01(b)[k])]))

\* the (n, n, c) kernels tried: every entry different from every other, and
\* a kernel whose per-class slices are symmetric
RawKernels ==
    UNION {{[i \in 1..n |-> [j \in 1..n |-> [k \in 1..c |-> ((i - 1) * n + (j - 1)) * c + k]]],
            [i \in 1..n |-> [j \in 1..n |-> [k \in 1..c |-> (i + j) * c + k]]]} :
           n \in 1..MaxKernelPoints, c \in 1..MaxKernelClasses}

\* positive semi-definite (m, m) matrices: the identity, v v^T for v of all
\* ones, and v v^T for v of alternating signs
PsdMatrices(m) ==
    {[i \in 1..m |-> [j \in 1..m |-> IF i = j THEN 1 ELSE 0]],
     [i \in 1..m |-> [j \in 1..m |-> 1]],
     [i \in 1..m |-> [j \in 1..m |-> IF (i + j) % 2 = 0 THEN 1 ELSE -1]]}

\* kernel_inv of shape ndim (0 for None) for n points and c classes
PsdKernelInvs(ndim, n, c) ==
    IF ndim = 0 THEN {[ndim |-> 0]}
    ELSE IF ndim = 2 THEN {[ndim |-> 2, m |-> mm] : mm \in PsdMatrices(n * c)}
    ELSE {[ndim |-> 3, m |-> ms] : ms \in [1..c -> PsdMatrices(n)]}

\* (n, c) differences between the current output and the stored mean
MeanDifferences(n, c) == [1..n -> [1..c -> {-1, 0, 1}]]

InitKernel ==
    /\ \/ \E kernel \in RawKernels :
             pen = Some([op |-> "update_kernel", kernel |-> kernel, reshaped |-> None])
       \/ \E n \in 1..MaxKernelPoints, c \in 1..MaxKernelClasses, ndim \in {0, 2, 3} :
             \E b \in MeanDifferences(n, c), kernel_inv \in PsdKernelInvs(ndim, n, c) :
                pen = Some([op |-> "get_penalty", b |-> b, kernel_inv |-> kernel_inv,
                            value |-> None])
    /\ sel_in = None /\ sel_out = None
    /\ task = None /\ task_log = None
    /\ fromp = None
    /\ model = CHOOSE m \in Models : TRUE
    /\ observed_tasks = << >>
    /\ precond = [accumulated |-> 0, inverted |-> 0]
    /\ calls = [ok |-> 0, failed |-> 0]
    /\ last = NoLast

\* task.update_kernel on a 3-D kernel, up to the reshape
KernelReshape ==
    /\ pen.some /\ pen.val.op = "update_kernel" /\ ~pen.val.reshaped.some
    /\ pen' = Some([pen.val EXCEPT !.reshaped = Some(ReshapeKernel3(pen.val.kernel))])
    /\ UNCHANGED <<engine_vars, select_vars, task_vars>>

\* task.get_penalty in quadratic mode, from b on
KernelPenalty ==
    /\ pen.some /\ pen.val.op = "get_penalty" /\ ~pen.val.value.some
    /\ pen' = Some([pen.val EXCEPT !.value = Some(QuadraticPenalty(pen.val.b, pen.val.kernel_inv))])
    /\ UNCHANGED <<engine_vars, select_vars, task_vars>>

NextKernel == KernelReshape \/ KernelPenalty

SpecKernel == InitKernel /\ [][NextKernel]_vars

\* the quadratic penalty was computed
QuadDone == pen.some /\ pen.val.op = "get_penalty" /\ pen.val.value.some

\* C11: in quadratic mode get_penalty returns a non-negative scalar for a
\* positive semi-definite kernel_inv of each of the three shapes
C11_PenaltyNonNegative == QuadDone => pen.val.value.val >= 0

\* sum over the classes k of b[:,k]^T kernel_inv[k] b[:,k]
BlockDiagonalForm(b, ms) ==
    SumSeq([k \in 1..Len(ms) |-> Dot(Transpose01(b)[k], MatVec(ms[k], Transpose01(b)[k]))])

\* C14: for a 3-D kernel_inv get_penalty returns the block-diagonal
\* quadratic form, the sum over the classes of b[:,k]^T kernel_inv[k] b[:,k]
C14_BlockDiagonal ==
    (QuadDone /\ pen.val.kernel_inv.ndim = 3) =>
        pen.val.value.val = BlockDiagonalForm(pen.val.b, pen.val.kernel_inv.m)

\* the reshape of a 3-D kernel was computed
ReshapeDone == pen.some /\ pen.val.op = "update_kernel" /\ pen.val.reshaped.some

\* C13: the reshape of an (n, n, c) kernel gives c matrices M_k with
\* M_k[i][j] = K[i][j][k], the per-class slices and not their transposes
C13_SlicesKept ==
    ReshapeDone =>
        \A k \in 1..Len(pen.val.reshaped.val) :
            \A i \in 1..Len(pen.val.kernel), j \in 1..Len(pen.val.kernel) :
                pen.val.reshaped.val[k][i][j] = pen.val.kernel[i][j][k]


(***************************************************************************)
(* Claims on SpecTask: the pruning and the target remap of update_mean     *)
(***************************************************************************)

\* the local index of a class: its 0-based position in class_ids
LocalIndex(class_ids, target) ==
    IF \E i \in 1..Len(class_ids) : class_ids[i] = target
    THEN (CHOOSE i \in 1..Len(class_ids) : class_ids[i] = target) - 1
    ELSE target

\* the true targets of a task as local indices
LocalTargets(t) ==
    [i \in 1..Len(t.memorable_points_true_targets) |->
        LocalIndex(t.class_ids.val, t.memorable_points_true_targets[i])]

\* positions (1-based, rising) of the rows of soft whose arg-max is the true target
RECURSIVE CorrectlyPredicted(_, _, _)
CorrectlyPredicted(soft, targets, i) ==
    IF i > Len(soft) \/ i > Len(targets) THEN << >>
    ELSE (IF Argmax(soft[i]) = targets[i] THEN <<i>> ELSE << >>)
         \o CorrectlyPredicted(soft, targets, i + 1)

\* the entries of lst at the positions keep
Pick(lst, keep) == [k \in 1..Len(keep) |-> lst[keep[k]]]

\* update_mean was the last call, in mode soft_correct, and it completed
SoftCorrectCompleted ==
    UpdateMeanCompleted /\ task_log.val.memory_loss_mode = "soft_correct"

\* C12: update_mean in mode soft_correct removes exactly the points whose
\* arg-max prediction differs from the true target and keeps the others in
\* order: n_memorable_points falls by the number of mispredicted points, and
\* the mean rows, points, indices and true targets left are those of the
\* correctly predicted points
C12_PrunesMispredicted ==
    SoftCorrectCompleted =>
        LET before == task_log.val.before
            soft == task_log.val.soft.rows
            keep == CorrectlyPredicted(soft, LocalTargets(before), 1)
        IN /\ task.val.n_memorable_points =
                 before.n_memorable_points - (Len(soft) - Len(keep))
           /\ task.val.mean.val = Pick(soft, keep)
           /\ task.val.memorable_points = Pick(before.memorable_points, keep)
           /\ task.val.memorable_points_indices = Pick(before.memorable_points_indices, keep)
           /\ task.val.memorable_points_true_targets = Pick(LocalTargets(before), keep)

\* the same for tasks whose class_ids are their classes in order
C12_PrunesMispredictedInOrder ==
    (SoftCorrectCompleted /\ task.val.class_ids = Some(<<0, 1>>)) => C12_PrunesMispredicted


\* the modes of update_mean that compare means with true targets
TargetModes == {"soft_correct", "soft_correct_hard_rest", "soft_low_residual_hard_rest"}

\* 1-based position of the within-task index x in a list of indices
PositionOf(indices, x) == CHOOSE i \in 1..Len(indices) : indices[i] = x

\* C17: after update_mean in mode soft_correct, soft_correct_hard_rest or
\* soft_low_residual_hard_rest on a task whose class_ids are not [0..k), the
\* true target of every point the task still holds is the local index of the
\* class the point had before the call
C17_TargetsAreLocalIndices ==
    (/\ UpdateMeanCompleted
     /\ task_log.val.memory_loss_mode \in TargetModes
     /\ task.val.class_ids.val # Range0(Len(task.val.class_ids.val))) =>
        LET before == task_log.val.before
        IN \A k \in 1..Len(task.val.memorable_points_true_targets) :
              task.val.memorable_points_true_targets[k] =
                 LocalTargets(before)[PositionOf(before.memorable_points_indices,
                                                 task.val.memorable_points_indices[k])]


(***************************************************************************)
(* Claims on Spec: the order of the steps of update_regularization_info    *)
(***************************************************************************)
EstimatorOps == {"update_curvature", "reduce_curvature", "accumulate_curvature", "update_inv"}

\* the estimator calls among the steps of a call, in the order made
EstimatorSteps(steps) == SelectSeq(steps, LAMBDA e : e \in EstimatorOps)

\* the estimator calls in the order the claim gives
EstimatorOrder(is_distributed) ==
    <<"update_curvature">>
    \o (IF is_distributed THEN <<"reduce_curvature">> ELSE << >>)
    \o <<"accumulate_curvature", "update_inv">>

\* every estimator call of steps comes before the selection, the append
\* and every update_kernel
EstimatorFirst(steps) ==
    \A i, j \in 1..Len(steps) :
        (/\ steps[i] \in EstimatorOps
         /\ steps[j] \in {"collect_memorable_points", "append", "update_kernel"}) => i < j

\* update_regularization_info was the last call on the engine
UpdateCalled == fromp.some /\ last.op = "update_regularization_info"

NoKernelInv == \A i \in 1..Len(observed_tasks) : ~observed_tasks[i].kernel_inv.some

\* C15, as stated: whenever use_identity_kernel is off, a call drives the
\* estimator through update_curvature, reduce_curvature (iff distributed),
\* accumulate_curvature, update_inv, before the selection, the append and
\* every update_kernel; whenever it is on, the estimator is not called and
\* no task has a kernel_inv
C15_EstimatorDrivenUnlessIdentity ==
    /\ UpdateCalled =>
          IF ~fromp.val.use_identity_kernel
          THEN /\ EstimatorSteps(last.steps) = EstimatorOrder(last.is_distributed)
               /\ EstimatorFirst(last.steps)
          ELSE EstimatorSteps(last.steps) = << >>
    /\ (fromp.some /\ fromp.val.use_identity_kernel) => NoKernelInv

\* C15, amended: the estimator is driven, in that order and ahead of the
\* selection, the append and every update_kernel, in the calls of an engine
\* with penalty_type 'fromp' and use_identity_kernel off; in every other
\* engine the estimator is not called and no task has a kernel_inv
C15_EstimatorDrivenWhenKernelUsed ==
    /\ UpdateCalled =>
          IF UsesKernel(fromp.val)
          THEN /\ EstimatorSteps(last.steps) = EstimatorOrder(last.is_distributed)
               /\ EstimatorFirst(last.steps)
               /\ precond.inverted = precond.accumulated
          ELSE /\ EstimatorSteps(last.steps) = << >>
               /\ precond.accumulated = 0
    /\ (fromp.some /\ ~UsesKernel(fromp.val)) => NoKernelInv

\* a second call of an engine that uses the kernel went through: the
\* estimator calls, the selection, the append, then kernel and mean of both tasks
C15_Witness ==
    /\ UpdateCalled /\ UsesKernel(fromp.val) /\ last.raised = ""
    /\ Len(observed_tasks) = 2
    /\ last.steps = <<"update_curvature", "accumulate_curvature", "update_inv",
                      "collect_memorable_points", "append",
                      "update_kernel", "update_mean", "update_kernel", "update_mean">>

(***************************************************************************)
(* Claims on SpecSelect: the error-correction augmentation                 *)
(***************************************************************************)
\* the index lists a selection of n points without error correction can
\* give on the inputs of sel_in, over the rankings explored
PrimarySelections(n) ==
    {collect_memorable_points(sel_in.data_loader, n, sel_in.select_method,
                              [num |-> 1, den |-> 1], FALSE, sel_in.as_tensor, FALSE, NoneInt,
                              [rank |-> 0, world_size |-> 1], order, order).memorable_points_indices :
        order \in SomeOrders(SelDataSize)}

\* the index lists of k error-correction points, over the rankings explored
ErrorCorrectionSelections(k) ==
    {_collect_error_correction_points(sel_in.data_loader.dataset, k, ec_order) :
        ec_order \in SomeOrders(SelDataSize)}

\* types tags exactly the positions after the first n_primary as
\* error-correction points and the first n_primary as memorable-past points
TagsSplitAt(types, n_indices, n_primary) ==
    /\ Len(types) = n_indices
    /\ \A i \in 1..Len(types) :
          types[i] = IF i > n_primary THEN TYPE_ERROR_CORRETION ELSE TYPE_MEMORABLE_PAST

PenaltyRowsTaken ==
    /\ task.some /\ task_log.some /\ task_log.val.op = "get_penalty"
    /\ task_log.val.current_points.raised = ""
    /\ task_log.val.mean_points.raised = ""

\* C18: in PastTask.get_penalty, for a tensor as for a DataLoader, with or
\* without idx and n_memorable_points_sub, the current outputs and the
\* stored mean rows that meet in the difference (or the cross-entropy) stand
\* for the same points: as many rows, the same points, the same order
C18_SamePointsCompared ==
    PenaltyRowsTaken => task_log.val.current_points.rows = task_log.val.mean_points.rows

\* the same for a tensor of memorable points
C18_SamePointsComparedTensor ==
    (PenaltyRowsTaken /\ task.val.as_tensor) => C18_SamePointsCompared

\* a call that returned a value for rows of different points
C18_SilentMismatch ==
    /\ PenaltyRowsTaken /\ task_log.val.raised = ""
    /\ task_log.val.current_points.rows # task_log.val.mean_points.rows


(***************************************************************************)
(* Claims on Spec: what an update leaves on the observed tasks             *)
(***************************************************************************)
\* C19: after every update_regularization_info call that went through on an
\* engine that uses the kernel, whatever its memory_loss_mode, the
\* kernel_inv of each observed task is sized for as many points as the
\* task's stored mean has rows
C19_KernelSizedAsMean ==
    (UpdateCalled /\ last.raised = "" /\ UsesKernel(fromp.val)) =>
        \A i \in 1..Len(observed_tasks) :
            /\ observed_tasks[i].kernel_inv.some
            /\ observed_tasks[i].mean.some
            /\ observed_tasks[i].kernel_inv.val.n = Len(observed_tasks[i].mean.val)

\* the same for the engines that keep every point (mode soft_all)
C19_KernelSizedAsMeanSoftAll ==
    (fromp.some /\ fromp.val.memory_loss_mode = "soft_all") => C19_KernelSizedAsMean


\* C20: in every state of the engine, the one a failed
\* update_regularization_info leaves included, is_ready implies that every
\* observed task has a mean, so that the assertion at the head of
\* PastTask.get_penalty holds
C20_ReadyImpliesMeans ==
    is_ready(observed_tasks) =>
        \A i \in 1..Len(observed_tasks) : observed_tasks[i].mean.some

\* the same after the calls that went through
C20_ReadyImpliesMeansAfterSuccess ==
    (calls.failed = 0) => C20_ReadyImpliesMeans

\* get_penalty met a task without a mean
C20_AssertionFails ==
    /\ last.op = "get_penalty" /\ last.raised = "AssertionError"
    /\ is_ready(observed_tasks)


(***************************************************************************)
(* Claims on SpecTask: the target remap over repeated update_mean calls    *)
(***************************************************************************)
\* update_mean completed on a task that an earlier update_mean had already
\* been through, in a mode that remaps, with class_ids other than [0..k)
RemappedAgain ==
    /\ UpdateMeanCompleted
    /\ task_log.val.updates >= 2
    /\ task_log.val.memory_loss_mode \in TargetModes
    /\ task.val.class_ids.val # Range0(Len(task.val.class_ids.val))

\* C21: the remap of the true targets is idempotent over the update_mean
\* calls repeated on a task: a call after the first leaves the stored true
\* target of every point the task still holds as the call found it, for
\* class_ids other than [0..k)
C21_RemapIdempotent ==
    RemappedAgain =>
        LET before == task_log.val.before
        IN \A k \in 1..Len(task.val.memorable_points_true_targets) :
              task.val.memorable_points_true_targets[k] =
                 before.memorable_points_true_targets[
                     PositionOf(before.memorable_points_indices,
                                task.val.memorable_points_indices[k])]

\* the same in the modes that keep every point
C21_RemapIdempotentWithoutPruning ==
    (RemappedAgain /\ task_log.val.memory_loss_mode # "soft_correct") => C21_RemapIdempotent


(***************************************************************************)
(* Claims on SpecSelect: one type tag per selected index                   *)
(***************************************************************************)
\* C22: collect_memorable_points returns as many memorable_points_types as
\* memorable_points_indices, whatever the selection method, the number of
\* points asked for (at least the size of the dataset, or not a multiple of
\* the number of classes) and with or without error correction
C22_OneTypePerIndex ==
    Selected =>
        Len(sel_out.val.memorable_points_types) = Len(sel_out.val.memorable_points_indices)

\* the same for a selection across the full dataset of no more points than
\* the dataset holds, without error correction
C22_OneTypePerIndexGlobalWithin ==
    (/\ Selected /\ ~SelWithEc
     /\ IsGlobalMethod(sel_in.select_method)
     /\ sel_in.n_memorable_points <= SelDataSize) => C22_OneTypePerIndex

=============================================================================
